---- MODULE Spec2Model ----
(***************************************************************************)
(* A model of gandalfast/zouppp:                                           *)
(*   - the PPPoE discovery engine (src/datapath/datapath_linux.go, the     *)
(*     pppoe package starting at line 172): Dial / getResponse, Close,     *)
(*     WriteTo, ReadFrom and the atomically updated state word;            *)
(*   - the PPP multiplexer (src/lcp/ppp.go): Register / UnRegister, the    *)
(*     send and receive loops, the per-frame relay goroutines and the      *)
(*     Protocol-Reject goroutines they spawn.                              *)
(* The two components are checked under two specifications, SpecPPPoE and  *)
(* SpecPPP; each leaves the other component's variables untouched.         *)
(***************************************************************************)
EXTENDS Integers, Sequences, FiniteSets, TLC

VARIABLES
    \* ---- PPPoE (struct PPPoE, datapath_linux.go:189-203) ----
    state,      \* *pppoe.state, the atomic state word
    sessionID,  \* pppoe.sessionID
    acMAC,      \* pppoe.acMAC
    dpc,        \* position of the goroutine running Dial: "idle", "padi", "padr"
    di,         \* loop variable i of the getResponse call Dial is in
    dialTx,     \* the transport writes of the running Dial, in order
    dialRx,     \* what each ReadPkt of the getResponse call Dial is in returned
    pado,       \* history: the PADO the running / last Dial accepted, with its sender
    pads,       \* history: the PADS the running / last Dial accepted, with its sender
    rfpc,       \* position of the goroutine running ReadFrom: "idle", "loop"
    rfSeen,     \* the frames ReadPktFrom has handed to the running ReadFrom
    ev,         \* history: what the last step did (call, argument, writes, reads, result)
    \* ---- PPP (struct PPP, ppp.go:51-58) ----
    relayChanList,  \* ppp.relayChanList: protocol number -> channel (NoChan: no entry)
    chans,          \* the channels Register has made, in order of creation
    sendChan,       \* ppp.sendChan
    reqID,          \* ppp.reqID
    rwReaders,      \* relayChanListLock: the relay goroutines holding RLock
    regCall,        \* the Register / UnRegister call waiting in Lock(), if any
    cancelAt,       \* ctx: -1 while it is live; once cancelled, history: how many frames
                    \* recv had read when it was cancelled
    recvpc,         \* the recv goroutine: "run" or "stopped"
    sendpc,         \* the send goroutine: "run" or "stopped"
    rxLog,          \* history: the frames ReadFrom returned to recv, in order
    unit,           \* per frame of rxLog: its relay and sendProtocolRejct goroutines
    txLog,          \* history: what the send goroutine wrote to the transport
    panicked        \* the panic that ended the process, None while it runs

pppoeVars == <<state, sessionID, acMAC, dpc, di, dialTx, dialRx, pado, pads, rfpc,
               rfSeen, ev>>
pppVars   == <<relayChanList, chans, sendChan, reqID, rwReaders, regCall, cancelAt,
               recvpc, sendpc, rxLog, unit, txLog, panicked>>
vars      == <<pppoeVars, pppVars>>

None == "none"
NoPkt == [got |-> FALSE]

(***************************************************************************)
(* PPPoE discovery engine                                                  *)
(***************************************************************************)

\* pppoeState constants, datapath_linux.go:213-218 (iota)
pppoeStateInitial == 0
pppoeStateDialing == 1
pppoeStateOpen    == 2
pppoeStateClosed  == 3

\* datapath_linux.go:209; NewPPPoE sets r.retry = DefaultRetry and no Modifier changes it
DefaultRetry == 3

\* datapath_linux.go:222,224
EtherTypePPPoESession   == 34916
EtherTypePPPoEDiscovery == 34915

\* The PPPoE codes.  Code and its values are declared in a file of the pppoe
\* package that is not part of src/; the values are those RFC 2516 assigns
\* (ReadFrom compares the byte buf[1] with CodeSession, line 389).
CodeSession == 0
CodePADO    == 7
CodePADI    == 9
CodePADR    == 25
CodePADS    == 101
CodePADT    == 167

\* Link addresses: two access concentrators may answer; NilMAC is the nil
\* net.HardwareAddr; BroadCastMAC is etherconn.BroadCastMAC.
MACs         == {"ac1", "ac2"}
NilMAC       == "nil"
BroadCastMAC == "ff:ff:ff:ff:ff:ff"

\* Session ids the AC may assign: 0 (rejection), 0x1234 and 0x3412
SessionIDs == {0, 4660, 13330}

\* What conn.ReadPkt hands getResponse: a timeout (no bytes), a hard error, or
\* a frame, which Packet.Parse either rejects or turns into a Packet.
DialReads ==
    {[kind |-> "timeout"], [kind |-> "error"], [kind |-> "malformed"]}
    \cup [kind : {"packet"}, src : MACs, Code : {CodePADO}, SessionID : {0}]
    \cup [kind : {"packet"}, src : MACs, Code : {CodePADS}, SessionID : SessionIDs]
    \cup [kind : {"packet"}, src : {"ac1"}, Code : {CodePADT}, SessionID : {4660}]

\* How a read is entered in the history dialRx
ReadName(rd) ==
    IF rd.kind # "packet" THEN rd.kind
    ELSE IF rd.Code = CodePADO THEN "PADO"
    ELSE IF rd.Code = CodePADS THEN "PADS"
    ELSE "PADT"

\* Packet.Parse applied to what ReadPkt returned (nil after a timeout): it
\* fails on input shorter than the fixed header and on a truncated tag.
ParseOK(rd) == rd.kind = "packet"

\* One transport write: conn.WritePktTo(pkt.Serialize(), etherType, dst); ok is
\* whether the transport accepted it.
TxRec(pkt, etherType, dst, ok) ==
    [pkt |-> pkt, etherType |-> etherType, dst |-> dst, ok |-> ok]

\* buildPADI / buildPADRWithPADO / buildPADT (tags are left to the PADR model)
buildPADI == [Code |-> CodePADI, SessionID |-> 0, Payload |-> <<>>]
buildPADR == [Code |-> CodePADR, SessionID |-> 0, Payload |-> <<>>]
buildPADT == [Code |-> CodePADT, SessionID |-> sessionID, Payload |-> <<>>]

\* The fields a step finds, with the PADO and PADS of the Dial before it
Snapshot == [state |-> state, sessionID |-> sessionID, acMAC |-> acMAC,
             pado |-> pado, pads |-> pads]

\* The record of one step: the call it belongs to, whether the call returned
\* in it, the call's argument and result, the transport writes and reads the
\* call has made, and the fields before the step
Ev(op, done, arg, ret, tx, rx, reads) ==
    [op |-> op, done |-> done, arg |-> arg, ret |-> ret, tx |-> tx, rx |-> rx,
     reads |-> reads, pre |-> Snapshot]

Ret(n, err) == [n |-> n, err |-> err]

\* ---- Dial and getResponse (lines 411-482) ----

\* The deferred function of Dial (lines 451-455) applied to state word s
DialDeferred(s) == IF s # pppoeStateOpen THEN pppoeStateClosed ELSE s

\* the loop condition of getResponse, line 416
RetryLeftOneMore(i) == i <= DefaultRetry
RetryLeft(i) == i < DefaultRetry

\* lines 431-437: the response parses and carries the awaited code
ResponseMatches(rd, code) == ParseOK(rd) /\ rd.Code = code

\* line 472: the PADS is a rejection
PADSRejectedNever(p) == FALSE
PADSRejected(p) == p.SessionID = 0

\* line 466: the sender of the PADS is discarded ("pads, _, err ="), the
\* address captured from the PADO stays
ACMACAfterPADSFromPADS(cur, padsSrc) == padsSrc
ACMACAfterPADS(cur, padsSrc) == cur

\* A Dial step leaves ReadFrom and the multiplexer alone
DialFrame == UNCHANGED <<rfpc, rfSeen, pppVars>>

\* line 450 and the declarations that follow it; the caller does not call Dial
\* while another Dial or a ReadFrom of the same instance is still running
\* (sessionID and acMAC are plain fields, written by Dial without a lock)
DialStart ==
    /\ dpc = "idle"
    /\ rfpc = "idle"
    /\ state' = pppoeStateDialing
    /\ dpc' = "padi"
    /\ di' = 0
    /\ dialTx' = <<>>
    /\ dialRx' = <<>>
    /\ pado' = NoPkt
    /\ pads' = NoPkt
    /\ ev' = Ev("Dial", FALSE, <<>>, Ret(0, None), <<>>, <<>>, 0)
    /\ UNCHANGED <<sessionID, acMAC>>
    /\ DialFrame

\* Dial returns err with the state word set to s: the deferred function runs,
\* and the writes and reads of this Dial go to the record of the step
DialReturn(err, s, tx, rx) ==
    /\ state' = DialDeferred(s)
    /\ dpc' = "idle"
    /\ di' = 0
    /\ dialTx' = <<>>
    /\ dialRx' = <<>>
    /\ ev' = Ev("Dial", TRUE, <<>>, Ret(0, err), tx, rx, Len(rx))

\* Dial goes on
DialContinue(phase, i, tx, rx) ==
    /\ dpc' = phase
    /\ di' = i
    /\ dialTx' = tx
    /\ dialRx' = rx
    /\ ev' = Ev("Dial", FALSE, <<>>, Ret(0, None), tx, rx, Len(rx))
    /\ UNCHANGED state

\* getResponse(padi, CodePADO, BroadCastMAC): the loop is over (line 439), and
\* line 459 assigns the nil address it returns to acMAC
DialPADIExhausted ==
    /\ dpc = "padi"
    /\ ~RetryLeft(di)
    /\ DialReturn("ErrNoResponse", state, dialTx, dialRx)
    /\ acMAC' = NilMAC
    /\ UNCHANGED <<sessionID, pado, pads>>
    /\ DialFrame

\* one iteration of that loop: write the PADI, read one response
DialPADIAttempt ==
    /\ dpc = "padi"
    /\ RetryLeft(di)
    /\ \E wok \in BOOLEAN :
        LET tx == Append(dialTx,
                         TxRec(buildPADI, EtherTypePPPoEDiscovery, BroadCastMAC, wok))
        IN  IF ~wok
            THEN /\ DialReturn("ErrTransport", state, tx, dialRx)
                 /\ acMAC' = NilMAC
                 /\ UNCHANGED pado
            ELSE \E rd \in DialReads :
                   LET rx == Append(dialRx, ReadName(rd))
                   IN  IF rd.kind = "error"
                       THEN /\ DialReturn("ErrTransport", state, tx, rx)
                            /\ acMAC' = NilMAC
                            /\ UNCHANGED pado
                       ELSE IF ResponseMatches(rd, CodePADO)
                       THEN /\ acMAC' = rd.src
                            /\ pado' = [got |-> TRUE, src |-> rd.src, Code |-> rd.Code,
                                        SessionID |-> rd.SessionID]
                            /\ DialContinue("padr", 0, tx, <<>>)
                       ELSE /\ DialContinue("padi", di + 1, tx, rx)
                            /\ UNCHANGED <<acMAC, pado>>
    /\ UNCHANGED <<sessionID, pads>>
    /\ DialFrame

\* getResponse(padr, CodePADS, pppoe.acMAC): the loop is over
DialPADRExhausted ==
    /\ dpc = "padr"
    /\ ~RetryLeft(di)
    /\ DialReturn("ErrNoResponse", state, dialTx, dialRx)
    /\ UNCHANGED <<sessionID, acMAC, pado, pads>>
    /\ DialFrame

\* one iteration of that loop, and lines 470-481 when the PADS has come
DialPADRAttempt ==
    /\ dpc = "padr"
    /\ RetryLeft(di)
    /\ \E wok \in BOOLEAN :
        LET tx == Append(dialTx, TxRec(buildPADR, EtherTypePPPoEDiscovery, acMAC, wok))
        IN  IF ~wok
            THEN /\ DialReturn("ErrTransport", state, tx, dialRx)
                 /\ UNCHANGED <<sessionID, acMAC, pads>>
            ELSE \E rd \in DialReads :
                   LET rx == Append(dialRx, ReadName(rd))
                   IN  IF rd.kind = "error"
                       THEN /\ DialReturn("ErrTransport", state, tx, rx)
                            /\ UNCHANGED <<sessionID, acMAC, pads>>
                       ELSE IF ResponseMatches(rd, CodePADS)
                       THEN /\ pads' = [got |-> TRUE, src |-> rd.src, Code |-> rd.Code,
                                        SessionID |-> rd.SessionID]
                            /\ acMAC' = ACMACAfterPADS(acMAC, rd.src)
                            /\ IF PADSRejected(rd)
                               THEN /\ DialReturn("ErrRejected", state, tx, rx)
                                    /\ UNCHANGED sessionID
                               ELSE /\ sessionID' = rd.SessionID
                                    /\ DialReturn("nil", pppoeStateOpen, tx, rx)
                       ELSE /\ DialContinue("padr", di + 1, tx, rx)
                            /\ UNCHANGED <<sessionID, acMAC, pads>>
    /\ UNCHANGED pado
    /\ DialFrame

\* ---- buildPADRWithPADO (lines 326-346) ----

\* The configured tag lists and the PADO tag lists that are followed
MaxCfgTags  == 2
MaxPadoTags == 3

\* Tag types.  TagType and its values are declared in a file of the pppoe
\* package that is not part of src/; only their being different matters here.
TagTypeServiceName    == "ServiceName"
TagTypeHostUniq       == "HostUniq"
TagTypeACCookie       == "ACCookie"
TagTypeRelaySessionID == "RelaySessionID"

\* pppoe.serviceName: no code of src/ assigns it, so it is the empty string
serviceName == <<>>

\* The tags lists are made of: a type and a value
TagKinds ==
    [Type : {TagTypeServiceName}, Value : {<<>>, <<1>>}]
    \cup [Type : {TagTypeHostUniq}, Value : {<<2>>}]
    \cup [Type : {TagTypeACCookie}, Value : {<<3>>, <<4>>}]
    \cup [Type : {TagTypeRelaySessionID}, Value : {<<5>>}]

TagLists(n) == UNION {[1..k -> TagKinds] : k \in 0..n}

\* pado.GetTag(t): Packet.GetTag is not part of src/; it is taken to return
\* the tags of type t of the packet, in the packet's order
GetTag(tags, t) == SelectSeq(tags, LAMBDA x : x.Type = t)

\* line 339: the configured tags that are copied into the PADR
KeepsConfiguredTagAlways(t) == TRUE
KeepsConfiguredTag(t) == t.Type # TagTypeServiceName

\* lines 326-346, for the configured tags pppoe.tags and the tags of the PADO
buildPADRWithPADO(tags, padoTags) ==
    [Code |-> CodePADR,
     SessionID |-> 0,
     Tags |-> <<[Type |-> TagTypeServiceName, Value |-> serviceName]>>
              \o SelectSeq(tags, KeepsConfiguredTag)
              \o GetTag(padoTags, TagTypeACCookie)
              \o GetTag(padoTags, TagTypeRelaySessionID)]

\* Dial builds the PADR (line 465) from a PADO with the tags padoTags on an
\* engine configured with the tags tags
BuildPADR(tags, padoTags) ==
    /\ ev' = Ev("buildPADRWithPADO", TRUE, [tags |-> tags, pado |-> padoTags],
                buildPADRWithPADO(tags, padoTags), <<>>, <<>>, 0)
    /\ UNCHANGED <<state, sessionID, acMAC, dpc, di, dialTx, dialRx, pado, pads, rfpc,
                   rfSeen, pppVars>>

\* ---- WriteTo, ReadFrom, Close (lines 298-309, 349-401) ----

\* The frames one ReadFrom call is followed through
MaxReads == 3

\* The payloads a caller writes
Payloads == {<<>>, <<192, 33, 1>>}

\* What conn.ReadPktFrom hands ReadFrom: the sender and the n bytes read.
\* Byte 0 is the version/type byte 0x11, byte 1 the code, bytes 2-3 the
\* session id, bytes 4-5 the length, the rest the payload.
RxData ==
    { <<17, CodeSession, 18>>,                      \* 3 bytes: shorter than the header
      <<17, CodeSession, 18, 52, 0, 0>>,            \* session 0x1234, empty payload
      <<17, CodeSession, 18, 52, 0, 2, 192, 33>>,   \* session 0x1234, payload c0 21
      <<17, CodeSession, 52, 18, 0, 1, 9>>,         \* session 0x3412, payload 09
      <<17, CodePADT, 18, 52, 0, 0>> }              \* PADT for session 0x1234
RxFrames ==
    [src : {"ac1"}, data : RxData]
    \cup [src : {"ac2"}, data : {<<17, CodeSession, 18, 52, 0, 2, 192, 33>>}]

\* binary.BigEndian.Uint16 of two bytes
Uint16BE(hi, lo) == hi * 256 + lo

\* The four checks of the ReadFrom loop (lines 383-395) on frame f, read
\* while the fields hold sid and mac: TRUE when the loop breaks on f
ReadFromKeepsNoSidCheck(f, sid, mac) ==
    /\ ~(Len(f.data) < 6)
    /\ ~(f.src # mac)
    /\ ~(f.data[2] # CodeSession)
ReadFromKeeps(f, sid, mac) ==
    /\ ~(Len(f.data) < 6)
    /\ ~(f.src # mac)
    /\ ~(f.data[2] # CodeSession)
    /\ ~(Uint16BE(f.data[3], f.data[4]) # sid)

\* lines 396-400: what ReadFrom returns for the frame it keeps
ReadFromResult(f, sid) ==
    [n |-> Len(f.data) - 6,
     data |-> SubSeq(f.data, 7, Len(f.data)),
     addr |-> [HwAddr |-> f.src, SessionID |-> sid],
     err |-> "nil"]

\* The state-word test that opens WriteTo and ReadFrom (lines 350, 371)
NotOpenOnlyClosed(s) == s = pppoeStateClosed
NotOpen(s) == s # pppoeStateOpen

\* lines 353-356: the packet WriteTo builds
WriteToPacket(p) == [Code |-> CodeSession, SessionID |-> sessionID, Payload |-> p]

DialVars == <<state, sessionID, acMAC, dpc, di, dialTx, dialRx, pado, pads>>

WriteTo(p) ==
    /\ IF NotOpen(state)
       THEN ev' = Ev("WriteTo", TRUE, p, Ret(0, "ErrNotOpen"), <<>>, <<>>, 0)
       ELSE \E wok \in BOOLEAN :
              ev' = Ev("WriteTo", TRUE, p,
                       IF wok THEN Ret(Len(p), "nil") ELSE Ret(0, "ErrTransport"),
                       <<TxRec(WriteToPacket(p), EtherTypePPPoESession, acMAC, wok)>>,
                       <<>>, 0)
    /\ UNCHANGED <<DialVars, rfpc, rfSeen, pppVars>>

\* Close (lines 298-309): the PADT is written when the state word is Open
CloseSendsPADTAlways(s) == TRUE
CloseSendsPADT(s) == s = pppoeStateOpen

\* lines 305-308: the error of the write is logged and nil is returned
CloseResult(wok) == "nil"

Close ==
    /\ IF CloseSendsPADT(state)
       THEN \E wok \in BOOLEAN :
              ev' = Ev("Close", TRUE, <<>>, Ret(0, CloseResult(wok)),
                       <<TxRec(buildPADT, EtherTypePPPoEDiscovery, acMAC, wok)>>,
                       <<>>, 0)
       ELSE ev' = Ev("Close", TRUE, <<>>, Ret(0, "nil"), <<>>, <<>>, 0)
    /\ UNCHANGED <<DialVars, rfpc, rfSeen, pppVars>>

\* ReadFrom is called: lines 371-373
ReadFromStart ==
    /\ rfpc = "idle"
    /\ rfSeen' = <<>>
    /\ IF NotOpen(state)
       THEN /\ ev' = Ev("ReadFrom", TRUE, <<>>, Ret(0, "ErrNotOpen"), <<>>, <<>>, 0)
            /\ rfpc' = "idle"
       ELSE /\ ev' = Ev("ReadFrom", FALSE, <<>>, Ret(0, None), <<>>, <<>>, 0)
            /\ rfpc' = "loop"
    /\ UNCHANGED <<DialVars, pppVars>>

\* one iteration of the loop of ReadFrom: ReadPktFrom fails (a timeout is an
\* error here too, line 380) ...
ReadFromError ==
    /\ rfpc = "loop"
    /\ ev' = Ev("ReadFrom", TRUE, <<>>, Ret(0, "ErrRecv"), <<>>, rfSeen, Len(rfSeen) + 1)
    /\ rfpc' = "idle"
    /\ rfSeen' = <<>>
    /\ UNCHANGED <<DialVars, pppVars>>

\* ... or returns the frame f, which the loop skips or keeps
ReadFromFrame(f) ==
    /\ rfpc = "loop"
    /\ Len(rfSeen) < MaxReads
    /\ LET rx == Append(rfSeen, f)
       IN  IF ReadFromKeeps(f, sessionID, acMAC)
           THEN /\ ev' = Ev("ReadFrom", TRUE, <<>>, ReadFromResult(f, sessionID),
                            <<>>, rx, Len(rx))
                /\ rfpc' = "idle"
                /\ rfSeen' = <<>>
           ELSE /\ ev' = Ev("ReadFrom", FALSE, <<>>, Ret(0, None), <<>>, rx, Len(rx))
                /\ rfSeen' = rx
                /\ UNCHANGED rfpc
    /\ UNCHANGED <<DialVars, pppVars>>

(***************************************************************************)
(* PPP multiplexer                                                         *)
(***************************************************************************)

\* The frames the receive loop is followed through
MaxFrames == 3

\* The Register calls that are followed
MaxRegisters == 2

\* The capacity of a receive channel: relayChanDepth (128, ppp.go:74), scaled
\* down so that MaxFrames frames can fill a channel
RelayDepth == 1

\* ppp.go:75
sendCHanDepth == 128

\* PPP protocol numbers and the LCP code of Protocol-Reject.  They are
\* declared in files of the lcp package that are not part of src/; the values
\* are the assigned numbers (RFC 1661, RFC 1332, RFC 1334, RFC 1994, RFC 5072).
ProtoIPv4   == 33
ProtoIPv6   == 87
ProtoIPCP   == 32801
ProtoIPv6CP == 32855
ProtoLCP    == 49185
ProtoPAP    == 49187
ProtoCHAP   == 49699
CodeProtocolReject == 8

\* A protocol number no case of the switch in sendProtocolRejct names (0x00ff)
ProtoUnknown == 255

\* The protocol numbers callers register and frames carry
Protos == {ProtoLCP, ProtoUnknown}

NoChan == 0

\* ctx.Done() is closed
ctxDone == cancelAt >= 0

\* a goroutine has panicked: the process is gone
crashed == panicked # None

\* The frames conn.ReadFrom returns to recv: buf[:n]
PPPFrames ==
    { <<192, 33, 1>>,     \* LCP, payload 01
      <<192, 33, 2>>,     \* LCP, payload 02
      <<0, 255, 7>>,      \* protocol 0x00ff, payload 07
      <<0, 255>> }        \* protocol 0x00ff, no payload

\* binary.BigEndian.Uint16(buf[:2])
FrameProto(buf) == Uint16BE(buf[1], buf[2])

\* the switch of sendProtocolRejct, lines 146-149: no reject for these
KnownProto(proto) ==
    proto \in {ProtoCHAP, ProtoIPCP, ProtoLCP, ProtoPAP, ProtoIPv6CP, ProtoIPv4, ProtoIPv6}

\* line 154: pkt.Payload = append(proto, b...), proto a copy of b[:2]
RejectPayloadFrameOnly(b) == b
RejectPayload(b) == SubSeq(b, 1, 2) \o b

\* line 155: Serialize() of the LCP packet inside its PPP frame.  Pkt.Serialize
\* is not part of the two source files; a Protocol-Reject of a frame this small
\* is taken to serialize without error
SerializeOK(pkt) == TRUE

\* lines 150-155: the packet handed to NewPPPPkt(pkt, ProtoLCP).Serialize(), for
\* the frame numbered i, with the id the goroutine has read
RejectPacket(i, id) ==
    [of |-> i, Proto |-> ProtoLCP, Code |-> CodeProtocolReject, ID |-> id,
     Payload |-> RejectPayload(rxLog[i])]

\* a channel made by Register (line 83); log is the history of its sends
NewChan == [buf |-> <<>>, closed |-> FALSE, log |-> <<>>]

NoCall == [op |-> None, p |-> 0]

\* the goroutines of one frame
NewUnit == [pc |-> "relay", tmp |-> 0, id |-> 0]

PPPoEFrame == UNCHANGED pppoeVars

\* --- Register / UnRegister (lines 82-98) ---

\* lines 85-86, with the lock held
RegisterApply(p, ch) ==
    /\ relayChanList' = [relayChanList EXCEPT ![p] = ch]
    /\ regCall' = NoCall

\* Register(p) makes its channel and calls Lock() (lines 83-84).  Lock()
\* returns at once when no reader holds the lock, and the call then runs to
\* its end; otherwise the call waits, and keeps new readers out while it does
RegisterCall(p) ==
    /\ ~crashed
    /\ regCall = NoCall
    /\ Len(chans) < MaxRegisters
    /\ chans' = Append(chans, NewChan)
    /\ IF rwReaders = {}
       THEN RegisterApply(p, Len(chans) + 1)
       ELSE /\ regCall' = [op |-> "Register", p |-> p, ch |-> Len(chans) + 1]
            /\ UNCHANGED relayChanList
    /\ UNCHANGED <<sendChan, reqID, rwReaders, cancelAt, recvpc, sendpc, rxLog, unit,
                   txLog, panicked>>
    /\ PPPoEFrame

\* the waiting Register gets the lock when the last reader has left
RegisterLocked ==
    /\ ~crashed
    /\ regCall.op = "Register"
    /\ rwReaders = {}
    /\ RegisterApply(regCall.p, regCall.ch)
    /\ UNCHANGED <<chans, sendChan, reqID, rwReaders, cancelAt, recvpc, sendpc, rxLog,
                   unit, txLog, panicked>>
    /\ PPPoEFrame

\* lines 95-97, with the lock held: close(ppp.relayChanList[p]) panics when p
\* has no entry (the map yields the nil channel); otherwise the channel is
\* closed and the entry deleted
UnRegisterApplyKeepsMapping(p) ==
    LET c == relayChanList[p]
    IN  IF c = NoChan
        THEN /\ panicked' = "close of nil channel"
             /\ UNCHANGED <<relayChanList, chans>>
        ELSE /\ chans' = [chans EXCEPT ![c].closed = TRUE]
             /\ UNCHANGED <<relayChanList, panicked>>
UnRegisterApply(p) ==
    LET c == relayChanList[p]
    IN  IF c = NoChan
        THEN /\ panicked' = "close of nil channel"
             /\ UNCHANGED <<relayChanList, chans>>
        ELSE /\ chans' = [chans EXCEPT ![c].closed = TRUE]
             /\ relayChanList' = [relayChanList EXCEPT ![p] = NoChan]
             /\ UNCHANGED panicked

\* UnRegister(p) calls Lock() (line 94)
UnRegisterCall(p) ==
    /\ ~crashed
    /\ regCall = NoCall
    /\ IF rwReaders = {}
       THEN /\ UnRegisterApply(p)
            /\ UNCHANGED regCall
       ELSE /\ regCall' = [op |-> "UnRegister", p |-> p, ch |-> NoChan]
            /\ UNCHANGED <<relayChanList, chans, panicked>>
    /\ UNCHANGED <<sendChan, reqID, rwReaders, cancelAt, recvpc, sendpc, rxLog, unit, txLog>>
    /\ PPPoEFrame

\* the waiting UnRegister gets the lock when the last reader has left
UnRegisterLocked ==
    /\ ~crashed
    /\ regCall.op = "UnRegister"
    /\ rwReaders = {}
    /\ UnRegisterApply(regCall.p)
    /\ regCall' = IF crashed' THEN regCall ELSE NoCall
    /\ UNCHANGED <<sendChan, reqID, rwReaders, cancelAt, recvpc, sendpc, rxLog, unit, txLog>>
    /\ PPPoEFrame

\* the registrant takes a payload from its receive channel
Consume(c) ==
    /\ ~crashed
    /\ c \in 1..Len(chans)
    /\ chans[c].buf # <<>>
    /\ chans' = [chans EXCEPT ![c].buf = Tail(@)]
    /\ UNCHANGED <<relayChanList, sendChan, reqID, rwReaders, regCall, cancelAt, recvpc,
                   sendpc, rxLog, unit, txLog, panicked>>
    /\ PPPoEFrame

\* the context is cancelled
Cancel ==
    /\ ~crashed
    /\ ~ctxDone
    /\ cancelAt' = Len(rxLog)
    /\ UNCHANGED <<relayChanList, chans, sendChan, reqID, rwReaders, regCall, recvpc,
                   sendpc, rxLog, unit, txLog, panicked>>
    /\ PPPoEFrame

\* --- the send loop (lines 105-117) ---

\* case <-ctx.Done()
SendStop ==
    /\ ~crashed
    /\ sendpc = "run"
    /\ ctxDone
    /\ sendpc' = "stopped"
    /\ UNCHANGED <<relayChanList, chans, sendChan, reqID, rwReaders, regCall, cancelAt,
                   recvpc, rxLog, unit, txLog, panicked>>
    /\ PPPoEFrame

\* lines 112-114: the error of the write is logged and the loop goes on
SendAfterWriteStopsOnError(wok) == IF wok THEN "run" ELSE "stopped"
SendAfterWrite(wok) == "run"

\* case b := <-ppp.sendChan: the frame is written, and the write may fail
SendWrite ==
    /\ ~crashed
    /\ sendpc = "run"
    /\ sendChan # <<>>
    /\ \E wok \in BOOLEAN :
          /\ txLog' = Append(txLog, [b |-> Head(sendChan), ok |-> wok])
          /\ sendpc' = SendAfterWrite(wok)
    /\ sendChan' = Tail(sendChan)
    /\ UNCHANGED <<relayChanList, chans, reqID, rwReaders, regCall, cancelAt, recvpc,
                   rxLog, unit, panicked>>
    /\ PPPoEFrame

\* The frames registrants send are followed up to this many
MaxSubmits == 3

\* The serialized frames a registrant sends
SendFrames == {<<192, 33, 1>>, <<192, 33, 2>>}

\* a registrant sends the frame b on the send channel Register gave it (line
\* 87: send = ppp.sendChan)
Submit(b) ==
    /\ ~crashed
    /\ Len(txLog) + Len(sendChan) < MaxSubmits
    /\ Len(sendChan) < sendCHanDepth
    /\ sendChan' = Append(sendChan, b)
    /\ UNCHANGED <<relayChanList, chans, reqID, rwReaders, regCall, cancelAt, recvpc,
                   sendpc, rxLog, unit, txLog, panicked>>
    /\ PPPoEFrame

\* --- the receive loop (lines 119-140) ---

\* ReadFrom returns a frame: line 138 starts its relay goroutine
RecvFrame(buf) ==
    /\ ~crashed
    /\ recvpc = "run"
    /\ Len(rxLog) < MaxFrames
    /\ rxLog' = Append(rxLog, buf)
    /\ unit' = Append(unit, NewUnit)
    /\ UNCHANGED <<relayChanList, chans, sendChan, reqID, rwReaders, regCall, cancelAt,
                   recvpc, sendpc, txLog, panicked>>
    /\ PPPoEFrame

\* ReadFrom times out after the context was cancelled (lines 128-133); a
\* timeout before that only starts the next iteration
RecvTimeout ==
    /\ ~crashed
    /\ recvpc = "run"
    /\ ctxDone
    /\ recvpc' = "stopped"
    /\ UNCHANGED <<relayChanList, chans, sendChan, reqID, rwReaders, regCall, cancelAt,
                   sendpc, rxLog, unit, txLog, panicked>>
    /\ PPPoEFrame

\* ReadFrom fails with another error (lines 125-127)
RecvError ==
    /\ ~crashed
    /\ recvpc = "run"
    /\ recvpc' = "stopped"
    /\ UNCHANGED <<relayChanList, chans, sendChan, reqID, rwReaders, regCall, cancelAt,
                   sendpc, rxLog, unit, txLog, panicked>>
    /\ PPPoEFrame

\* --- relay (lines 162-172) and the start of sendProtocolRejct ---

\* line 163
RelayDrops(buf) == Len(buf) <= 2

\* line 171 runs whether or not the frame was delivered
RelayRejects(c) == TRUE

\* the send of line 169 on channel c has to wait
SendWaits(c) == c # NoChan /\ ~chans[c].closed /\ ~(Len(chans[c].buf) < RelayDepth)

\* lines 168-171, the deferred RUnlock, and lines 144-149 of the goroutine
\* line 171 starts: the payload of frame i goes to the channel of its
\* protocol, if there is one (a send on a closed channel panics); then
\* sendProtocolRejct returns at once for a protocol its switch names, and is
\* about to increment reqID for any other
RelayPass(i) ==
    LET c == relayChanList[FrameProto(rxLog[i])]
    IN  /\ IF c = NoChan
           THEN UNCHANGED <<chans, panicked>>
           ELSE IF chans[c].closed
           THEN /\ panicked' = "send on closed channel"
                /\ UNCHANGED chans
           ELSE /\ chans' = [chans EXCEPT
                               ![c].buf = Append(@, SubSeq(rxLog[i], 3, Len(rxLog[i]))),
                               ![c].log = Append(@, i)]
                /\ UNCHANGED panicked
        /\ unit' = [unit EXCEPT ![i].pc =
                      IF RelayRejects(c) /\ ~KnownProto(FrameProto(rxLog[i]))
                      THEN "load" ELSE "done"]

\* relay starts (lines 163-167): a short frame is dropped; otherwise RLock(),
\* which waits while a writer holds or awaits the lock.  When the send of line
\* 169 need not wait, the goroutine runs on to its end under the read lock;
\* when the channel is full it stays in the send, holding the read lock
RelayEnter(i) ==
    /\ ~crashed
    /\ unit[i].pc = "relay"
    /\ IF RelayDrops(rxLog[i])
       THEN /\ unit' = [unit EXCEPT ![i].pc = "done"]
            /\ UNCHANGED <<rwReaders, chans, panicked>>
       ELSE /\ regCall = NoCall
            /\ IF SendWaits(relayChanList[FrameProto(rxLog[i])])
               THEN /\ rwReaders' = rwReaders \cup {i}
                    /\ unit' = [unit EXCEPT ![i].pc = "locked"]
                    /\ UNCHANGED <<chans, panicked>>
               ELSE /\ RelayPass(i)
                    /\ UNCHANGED rwReaders
    /\ UNCHANGED <<relayChanList, sendChan, reqID, regCall, cancelAt, recvpc, sendpc,
                   rxLog, txLog>>
    /\ PPPoEFrame

\* the channel has room again: the waiting send of line 169 goes through
RelayDeliver(i) ==
    /\ ~crashed
    /\ unit[i].pc = "locked"
    /\ ~SendWaits(relayChanList[FrameProto(rxLog[i])])
    /\ RelayPass(i)
    /\ rwReaders' = rwReaders \ {i}
    /\ UNCHANGED <<relayChanList, sendChan, reqID, regCall, cancelAt, recvpc, sendpc,
                   rxLog, txLog>>
    /\ PPPoEFrame

\* --- sendProtocolRejct (lines 150-160) ---

\* line 152, ppp.reqID++, is not atomic: it reads the counter ...
RejectLoad(i) ==
    /\ ~crashed
    /\ unit[i].pc = "load"
    /\ unit' = [unit EXCEPT ![i].pc = "store", ![i].tmp = reqID]
    /\ UNCHANGED <<relayChanList, chans, sendChan, reqID, rwReaders, regCall, cancelAt,
                   recvpc, sendpc, rxLog, txLog, panicked>>
    /\ PPPoEFrame

\* ... and writes it back incremented (a uint8)
RejectStore(i) ==
    /\ ~crashed
    /\ unit[i].pc = "store"
    /\ reqID' = (unit[i].tmp + 1) % 256
    /\ unit' = [unit EXCEPT ![i].pc = "id", ![i].tmp = 0]
    /\ UNCHANGED <<relayChanList, chans, sendChan, rwReaders, regCall, cancelAt, recvpc,
                   sendpc, rxLog, txLog, panicked>>
    /\ PPPoEFrame

\* line 153: pkt.ID = ppp.reqID
RejectReadID(i) ==
    /\ ~crashed
    /\ unit[i].pc = "id"
    /\ unit' = [unit EXCEPT ![i].pc = "submit", ![i].id = reqID]
    /\ UNCHANGED <<relayChanList, chans, sendChan, reqID, rwReaders, regCall, cancelAt,
                   recvpc, sendpc, rxLog, txLog, panicked>>
    /\ PPPoEFrame

\* lines 154-158: the packet is built, serialized and sent on sendChan
RejectSubmit(i) ==
    /\ ~crashed
    /\ unit[i].pc = "submit"
    /\ Len(sendChan) < sendCHanDepth
    /\ sendChan' = IF SerializeOK(RejectPacket(i, unit[i].id))
                   THEN Append(sendChan, RejectPacket(i, unit[i].id))
                   ELSE sendChan
    /\ unit' = [unit EXCEPT ![i].pc = "done", ![i].id = 0]
    /\ UNCHANGED <<relayChanList, chans, reqID, rwReaders, regCall, cancelAt, recvpc,
                   sendpc, rxLog, txLog, panicked>>
    /\ PPPoEFrame

\* --- PPPPacket.Serialize and PPPPacket.Parse (lines 22-40) ---

\* The longest payload of the frames that are serialized
MaxPayload == 3

\* The bytes payloads are made of
PayloadBytes == {0, 33, 255}

\* The PPPPackets that are serialized: a protocol number (a uint16) and a
\* payload whose own Serialize returns its bytes
ProtocolFrames ==
    [Proto : {0, ProtoIPv4, ProtoUnknown, ProtoLCP, 65535},
     Payload : UNION {[1..n -> PayloadBytes] : n \in 0..MaxPayload}]

\* binary.BigEndian.PutUint16(buf, v)
PutUint16(v) == <<v \div 256, v % 256>>

\* lines 22-30: two bytes of protocol number, then the serialized payload
PPPPacketSerialize(f) == [buf |-> PutUint16(f.Proto) \o f.Payload, err |-> "nil"]

\* lines 33-40
PPPPacketParse(buf) ==
    IF Len(buf) <= 2
    THEN [err |-> "ErrInvalidLength"]
    ELSE [err |-> "nil", Proto |-> Uint16BE(buf[1], buf[2]),
          Payload |-> SubSeq(buf, 3, Len(buf))]

\* a frame is serialized and the bytes are parsed into a fresh PPPPacket
SerializeThenParse(f) ==
    /\ ev' = Ev("PPPPacket", TRUE, f, PPPPacketParse(PPPPacketSerialize(f).buf),
                <<>>, <<>>, 0)
    /\ UNCHANGED <<DialVars, rfpc, rfSeen, pppVars>>

\* ---- the PPPoE specification ----

PPPoEInit ==
    /\ state = pppoeStateInitial
    /\ sessionID = 0
    /\ acMAC = NilMAC
    /\ dpc = "idle"
    /\ di = 0
    /\ dialTx = <<>>
    /\ dialRx = <<>>
    /\ pado = NoPkt
    /\ pads = NoPkt
    /\ rfpc = "idle"
    /\ rfSeen = <<>>
    /\ ev = Ev(None, TRUE, <<>>, Ret(0, None), <<>>, <<>>, 0)

\* NewPPP (lines 61-71): an empty registry, and the two loops started
PPPInit ==
    /\ relayChanList = [p \in Protos |-> NoChan]
    /\ chans = <<>>
    /\ sendChan = <<>>
    /\ reqID = 0
    /\ rwReaders = {}
    /\ regCall = NoCall
    /\ cancelAt = -1
    /\ recvpc = "run"
    /\ sendpc = "run"
    /\ rxLog = <<>>
    /\ unit = <<>>
    /\ txLog = <<>>
    /\ panicked = None

Init == PPPoEInit /\ PPPInit

PPPoENext ==
    \/ DialStart
    \/ DialPADIAttempt
    \/ DialPADIExhausted
    \/ DialPADRAttempt
    \/ DialPADRExhausted
    \/ \E p \in Payloads : WriteTo(p)
    \/ Close
    \/ ReadFromStart
    \/ ReadFromError
    \/ \E f \in RxFrames : ReadFromFrame(f)

SpecPPPoE == Init /\ [][PPPoENext]_vars

\* ---- the PPP specification ----

\* The registry, the frames read and their goroutines.  The send loop only
\* takes packets off sendChan, and the context only stops the two loops; they
\* are left to the specification of the loops, and sendChan here holds every
\* packet submitted.
PPPNext ==
    \/ \E p \in Protos : RegisterCall(p)
    \/ RegisterLocked
    \/ \E p \in Protos : UnRegisterCall(p)
    \/ UnRegisterLocked
    \/ \E c \in 1..MaxRegisters : Consume(c)
    \/ \E buf \in PPPFrames : RecvFrame(buf)
    \/ \E i \in 1..Len(unit) : RelayEnter(i)
    \/ \E i \in 1..Len(unit) : RelayDeliver(i)
    \/ \E i \in 1..Len(unit) : RejectLoad(i)
    \/ \E i \in 1..Len(unit) : RejectStore(i)
    \/ \E i \in 1..Len(unit) : RejectReadID(i)
    \/ \E i \in 1..Len(unit) : RejectSubmit(i)

SpecPPP == Init /\ [][PPPNext]_vars

\* ---- the specification of the send and receive loops ----

\* The two loops, the context and the registrants' sends.  The goroutines of
\* the frames read are left to SpecPPP.  The send loop takes a frame that
\* waits on sendChan: a goroutine that can run is scheduled.
LoopsNext ==
    \/ Cancel
    \/ SendStop
    \/ SendWrite
    \/ \E b \in SendFrames : Submit(b)
    \/ RecvFrame(<<192, 33, 1>>)
    \/ RecvTimeout
    \/ RecvError

SpecLoops == Init /\ [][LoopsNext]_vars /\ WF_vars(SendWrite)

\* ---- the specification of the PADR builder ----

\* one call of buildPADRWithPADO is followed
PADRNext ==
    /\ ev.op = None
    /\ \E tags \in TagLists(MaxCfgTags) : \E padoTags \in TagLists(MaxPadoTags) :
          BuildPADR(tags, padoTags)

SpecPADR == Init /\ [][PADRNext]_vars

\* ---- the specification of the PPP frame codec ----

CodecNext == \E f \in ProtocolFrames : SerializeThenParse(f)

SpecCodec == Init /\ [][CodecNext]_vars

(***************************************************************************)
(* Claims about the PPPoE discovery engine                                 *)
(***************************************************************************)

AllWritesOK(tx) == \A i \in 1..Len(tx) : tx[i].ok
AllTimeouts(rx) == \A i \in 1..Len(rx) : rx[i] = "timeout"

\* C1: when the AC answers the PADI with a PADO and the PADR with a PADS whose
\* SessionID is not 0, Dial returns nil, the state is Open, the session id of
\* the PADS is recorded and the address of the PADO's sender is kept; every
\* WriteTo(p) made while the state is Open writes exactly one packet, to the
\* sender of that PADO, with Code = Session, the session id of that PADS and
\* the payload p.
C1_DialOpensAndWriteToWraps ==
    /\ (pado.got /\ pads.got /\ pads.SessionID # 0) =>
          /\ dpc = "idle"
          /\ state = pppoeStateOpen
          /\ sessionID = pads.SessionID
          /\ acMAC = pado.src
          /\ (ev.op = "Dial" => ev.done /\ ev.ret.err = "nil")
    /\ (ev.op = "WriteTo" /\ ev.pre.state = pppoeStateOpen) =>
          /\ Len(ev.tx) = 1
          /\ ev.tx[1].pkt = [Code |-> CodeSession,
                             SessionID |-> ev.pre.pads.SessionID,
                             Payload |-> ev.arg]
          /\ ev.tx[1].dst = ev.pre.pado.src
          /\ ev.tx[1].etherType = EtherTypePPPoESession

\* a WriteTo of a non-empty payload on a session whose PADO and PADS came from
\* different senders
C1_Witness ==
    /\ ev.op = "WriteTo"
    /\ ev.pre.state = pppoeStateOpen
    /\ ev.arg # <<>>
    /\ ev.pre.pads.src # ev.pre.pado.src
    /\ ev.tx[1].ok
    /\ ev.ret.n = Len(ev.arg)

\* C2: when the PADS that answers the PADR carries SessionID 0, Dial returns
\* the rejection error and the state ends Closed; the state is not Open at any
\* step of a running Dial.
C2_RejectedPADSClosesDial ==
    /\ (dpc # "idle" => state = pppoeStateDialing)
    /\ (pads.got /\ pads.SessionID = 0) =>
          /\ dpc = "idle"
          /\ state = pppoeStateClosed
          /\ (ev.op = "Dial" => ev.done /\ ev.ret.err = "ErrRejected")

\* a Dial on an instance that held a session before is rejected
C2_Witness ==
    /\ ev.op = "Dial"
    /\ ev.done
    /\ pads.got
    /\ pads.SessionID = 0
    /\ ev.pre.sessionID # 0
    /\ ev.ret.err = "ErrRejected"

\* C3: when every read of the PADI phase times out (and the transport takes
\* every write), Dial has written the PADI exactly DefaultRetry times and
\* nothing else when it returns, it returns an error, and the state is Closed.
C3_NoPADOTimesOutAfterRetrySends ==
    (ev.op = "Dial" /\ ev.done /\ ~pado.got /\ AllWritesOK(ev.tx) /\ AllTimeouts(ev.rx)) =>
        /\ Len(ev.tx) = DefaultRetry
        /\ \A i \in 1..Len(ev.tx) :
              /\ ev.tx[i].pkt.Code = CodePADI
              /\ ev.tx[i].dst = BroadCastMAC
        /\ ev.ret.err = "ErrNoResponse"
        /\ state = pppoeStateClosed

C3_Witness ==
    /\ ev.op = "Dial"
    /\ ev.done
    /\ ~pado.got
    /\ AllWritesOK(ev.tx)
    /\ ev.rx = <<"timeout", "timeout", "timeout">>
    /\ state = pppoeStateClosed

\* C4: no step takes the state from Open to Dialing.
C4_OpenNeverBackToDialing ==
    [][state = pppoeStateOpen => state' # pppoeStateDialing]_vars

\* C5: a WriteTo or ReadFrom made while the state is Initial, Dialing or
\* Closed returns an error without a transport write or read, and leaves the
\* state word, the session id and the AC address as they were.
C5_NotOpenCallsFail ==
    (ev.op \in {"WriteTo", "ReadFrom"} /\ ev.pre.state # pppoeStateOpen) =>
        /\ ev.done
        /\ ev.ret.err = "ErrNotOpen"
        /\ ev.ret.n = 0
        /\ ev.tx = <<>>
        /\ ev.reads = 0
        /\ state = ev.pre.state
        /\ sessionID = ev.pre.sessionID
        /\ acMAC = ev.pre.acMAC

\* a WriteTo made while a second Dial runs, the fields still holding the
\* session of the first
C5_Witness ==
    /\ ev.op = "WriteTo"
    /\ ev.pre.state = pppoeStateDialing
    /\ ev.pre.sessionID # 0
    /\ ev.pre.acMAC \in MACs
    /\ ev.arg # <<>>
    /\ ev.ret.err = "ErrNotOpen"

\* The four conditions of C6 on a frame, for the recorded session id and
\* the captured address
IsSessionFrameFor(f, sid, mac) ==
    /\ Len(f.data) >= 6
    /\ f.src = mac
    /\ f.data[2] = CodeSession
    /\ f.data[3] * 256 + f.data[4] = sid

\* C6: of the frames a ReadFrom on an Open engine has read, every one that is
\* shorter than 6 bytes, comes from another address than the AC's, has another
\* code than Session or another session id than the recorded one is skipped
\* without an error, and the frame ReadFrom returns is the first that is none
\* of these, with the bytes after the 6-byte header as payload and n - 6 as
\* length.
C6_ReadFromReturnsFirstSessionFrame ==
    (ev.op = "ReadFrom" /\ ev.rx # <<>>) =>
        LET k    == Len(ev.rx)
            last == ev.rx[k]
            kept == ev.done /\ ev.ret.err = "nil"
        IN  /\ \A i \in 1..(k - 1) :
                  ~IsSessionFrameFor(ev.rx[i], ev.pre.sessionID, ev.pre.acMAC)
            /\ kept =>
                  /\ IsSessionFrameFor(last, ev.pre.sessionID, ev.pre.acMAC)
                  /\ ev.ret.n = Len(last.data) - 6
                  /\ ev.ret.data = [j \in 1..(Len(last.data) - 6) |-> last.data[j + 6]]
                  /\ ev.ret.addr = [HwAddr |-> ev.pre.acMAC,
                                    SessionID |-> ev.pre.sessionID]
            /\ (ev.reads = k /\ ~IsSessionFrameFor(last, ev.pre.sessionID, ev.pre.acMAC)) =>
                  /\ ~ev.done
                  /\ ev.ret.err = None
                  /\ rfpc = "loop"
            /\ (ev.reads = k /\ IsSessionFrameFor(last, ev.pre.sessionID, ev.pre.acMAC)) =>
                  kept

\* ReadFrom skips a frame of the session from another address and a frame
\* from the AC for another session, then returns a frame with a payload
C6_Witness ==
    /\ ev.op = "ReadFrom"
    /\ ev.done
    /\ ev.ret.err = "nil"
    /\ Len(ev.rx) = 3
    /\ ev.rx[1].src # ev.pre.acMAC
    /\ IsSessionFrameFor(ev.rx[1], ev.pre.sessionID, ev.rx[1].src)
    /\ ev.rx[2].src = ev.pre.acMAC
    /\ Len(ev.rx[2].data) >= 6
    /\ ev.rx[2].data[2] = CodeSession
    /\ ev.ret.n > 0

\* C7: Close writes a PADT with the current session id to the captured AC
\* address exactly when the state is Open; when it is not, Close writes
\* nothing, changes nothing and returns nil.
C7_ClosePADTIffOpen ==
    (ev.op = "Close") =>
        /\ (ev.pre.state = pppoeStateOpen) =>
              /\ Len(ev.tx) = 1
              /\ ev.tx[1].pkt.Code = CodePADT
              /\ ev.tx[1].pkt.SessionID = ev.pre.sessionID
              /\ ev.tx[1].dst = ev.pre.acMAC
              /\ ev.tx[1].etherType = EtherTypePPPoEDiscovery
        /\ (ev.pre.state # pppoeStateOpen) =>
              /\ ev.tx = <<>>
              /\ ev.ret.err = "nil"
              /\ state = ev.pre.state
              /\ sessionID = ev.pre.sessionID
              /\ acMAC = ev.pre.acMAC

C7_Witness ==
    /\ ev.op = "Close"
    /\ ev.pre.state = pppoeStateOpen
    /\ ev.tx # <<>>
    /\ ev.tx[1].ok
    /\ ev.tx[1].pkt.SessionID = 13330

\* C8: when the state is Open and the transport write of the PADT fails,
\* Close returns an error.
C8_CloseSurfacesPADTFailure ==
    (ev.op = "Close" /\ ev.pre.state = pppoeStateOpen /\ ev.tx # <<>> /\ ~ev.tx[1].ok) =>
        ev.ret.err # "nil"

(***************************************************************************)
(* Claims about the PPP multiplexer                                        *)
(***************************************************************************)

\* buf[2:], the payload relay hands to the channel
FramePayload(buf) == SubSeq(buf, 3, Len(buf))

\* C9: on every receive channel the payloads appear in the order in which
\* their frames were read from the transport: of two payloads sent on the
\* same channel, the one sent first belongs to the frame read first (unless
\* the two payloads are equal, when the order cannot be told).
C9_ChannelKeepsReadOrder ==
    \A c \in 1..Len(chans) :
       \A a, b \in 1..Len(chans[c].log) :
          a < b =>
             \/ chans[c].log[a] < chans[c].log[b]
             \/ FramePayload(rxLog[chans[c].log[a]]) = FramePayload(rxLog[chans[c].log[b]])

\* the Protocol-Reject packets on sendChan that were made for frame i
RejectsOf(i) == {k \in 1..Len(sendChan) : sendChan[k].of = i}

\* a frame with a payload whose protocol number is none of the seven
WantsReject(b) ==
    /\ Len(b) > 2
    /\ Uint16BE(b[1], b[2]) \notin {ProtoLCP, ProtoPAP, ProtoCHAP, ProtoIPCP, ProtoIPv6CP,
                                    ProtoIPv4, ProtoIPv6}

\* C10: a received frame never has more than one Protocol-Reject on the send
\* channel; a packet submitted for a frame is an LCP packet with code
\* Protocol-Reject whose payload is the frame's two protocol bytes followed by
\* the whole frame, and is submitted only for a frame with a payload whose
\* protocol is none of LCP, PAP, CHAP, IPCP, IPv6CP, IPv4, IPv6; when the
\* goroutines of such a frame have finished there is exactly one, whether or
\* not the frame went to a registered channel, and for a frame of one of the
\* seven protocols there is none.
C10_OneProtocolRejectPerUnknownFrame ==
    \A i \in 1..Len(rxLog) :
       LET b == rxLog[i]
           R == RejectsOf(i)
       IN  /\ Cardinality(R) <= 1
           /\ \A k \in R :
                 /\ sendChan[k].Proto = ProtoLCP
                 /\ sendChan[k].Code = CodeProtocolReject
                 /\ sendChan[k].Payload = <<b[1], b[2]>> \o b
           /\ (R # {} => WantsReject(b))
           /\ (unit[i].pc = "done" /\ WantsReject(b) => Cardinality(R) = 1)

\* two frames of protocol 0x00ff, the first delivered to a registered channel
\* and the second read after the channel was unregistered, each with its own
\* Protocol-Reject, beside an LCP frame that has none
C10_Witness ==
    \E i, j, l \in 1..Len(rxLog) :
       /\ i # j
       /\ rxLog[i] = <<0, 255, 7>>
       /\ rxLog[j] = <<0, 255, 7>>
       /\ FrameProto(rxLog[l]) = ProtoLCP
       /\ unit[i].pc = "done" /\ unit[j].pc = "done" /\ unit[l].pc = "done"
       /\ \E c \in 1..Len(chans) : \E a \in 1..Len(chans[c].log) : chans[c].log[a] = i
       /\ \A c \in 1..Len(chans) : \A a \in 1..Len(chans[c].log) : chans[c].log[a] # j
       /\ Cardinality(RejectsOf(i)) = 1
       /\ Cardinality(RejectsOf(j)) = 1
       /\ RejectsOf(l) = {}

\* the unit of frame i is past relay's send
Relayed(i) == unit[i].pc \notin {"relay", "locked"}

\* the frames whose payload went to channel c
DeliveredTo(c) == {chans[c].log[a] : a \in 1..Len(chans[c].log)}

\* C11: no dispatch unit sends on a receive channel UnRegister has closed: no
\* run panics with a send on a closed channel, no protocol is mapped to a
\* closed channel, and a unit waiting in its send waits on an open channel.
C11_NoSendOnClosedChannel ==
    /\ panicked # "send on closed channel"
    /\ \A p \in Protos :
          relayChanList[p] # NoChan => ~chans[relayChanList[p]].closed
    /\ \A i \in 1..Len(unit) :
          unit[i].pc = "locked" =>
             /\ relayChanList[FrameProto(rxLog[i])] # NoChan
             /\ ~chans[relayChanList[FrameProto(rxLog[i])]].closed

\* a channel that took a payload was closed by UnRegister, and a later frame
\* of the same protocol went through relay without reaching any channel
C11_Witness ==
    /\ ~crashed
    /\ \E c \in 1..Len(chans) :
          /\ chans[c].closed
          /\ chans[c].log # <<>>
          /\ \E j \in 1..Len(rxLog) :
                /\ j > chans[c].log[1]
                /\ FrameProto(rxLog[j]) = FrameProto(rxLog[chans[c].log[1]])
                /\ Len(rxLog[j]) > 2
                /\ Relayed(j)
                /\ \A d \in 1..Len(chans) : j \notin DeliveredTo(d)

\* C12: for every frame, the empty-payload ones included, parsing the bytes
\* Serialize made of it succeeds and gives back the protocol number and the
\* payload of the frame.
C12_ParseInvertsSerialize ==
    (ev.op = "PPPPacket") =>
        /\ ev.ret.err = "nil"
        /\ ev.ret.Proto = ev.arg.Proto
        /\ ev.ret.Payload = ev.arg.Payload

\* C13: while a unit for protocol P waits in its send on P's full channel, a
\* frame of another registered protocol Q whose channel has room can be
\* delivered: the unit of that frame can take its step, also when Register or
\* UnRegister has been called in the meantime.
C13_OtherProtocolStillDelivered ==
    \A i, j \in 1..Len(unit) :
       (/\ ~crashed
        /\ unit[i].pc = "locked"
        /\ unit[j].pc = "relay"
        /\ ~RelayDrops(rxLog[j])
        /\ FrameProto(rxLog[j]) # FrameProto(rxLog[i])
        /\ relayChanList[FrameProto(rxLog[j])] # NoChan
        /\ ~SendWaits(relayChanList[FrameProto(rxLog[j])]))
       => ENABLED RelayEnter(j)

\* C14: once the context is cancelled the receive loop starts no dispatch unit
\* for a frame read in a later iteration: of the frames read after the
\* cancellation only the first, whose read may have begun before it, has a
\* unit.
C14_NoDispatchAfterCancel ==
    ctxDone => Len(unit) <= cancelAt + 1

\* the frames the send loop has written, in order
Written == [k \in 1..Len(txLog) |-> txLog[k].b]

\* written and waiting frames, in order of submission
Outbound == Written \o sendChan

IsPrefix(a, b) == Len(a) <= Len(b) /\ SubSeq(b, 1, Len(a)) = a

\* C15: the send loop stops only when the context is cancelled, never because
\* a write failed; frames are written in the order of their submission and
\* none is lost; and while the context is not cancelled a frame waiting on
\* the send channel is eventually taken and written.
C15_SendLoopSurvivesWriteFailure ==
    /\ [](sendpc = "stopped" => ctxDone)
    /\ [][IsPrefix(Outbound, Outbound') /\ IsPrefix(Written, Written')]_vars
    /\ \A k \in 0..(MaxSubmits + 1) :
          (Len(txLog) = k /\ sendChan # <<>> /\ ~ctxDone) ~> (Len(txLog) > k \/ ctxDone)

\* after a failed write a frame submitted later is written, the context live
C15_Witness ==
    /\ ~ctxDone
    /\ sendpc = "run"
    /\ \E k, l \in 1..Len(txLog) :
          /\ k < l
          /\ ~txLog[k].ok
          /\ txLog[l].ok
          /\ txLog[k].b # txLog[l].b

\* C16: the Protocol-Reject packets on the send channel carry pairwise
\* distinct ids, and when the goroutines of all frames have finished the
\* counter stands at the number of packets emitted.
C16_RejectIdsDistinctAndCounted ==
    /\ \A k, l \in 1..Len(sendChan) :
          k # l => sendChan[k].ID # sendChan[l].ID
    /\ (\A i \in 1..Len(unit) : unit[i].pc = "done") => reqID = Len(sendChan)

\* C17: while Dial waits for the PADO, a well-formed response with another
\* code does not use up an attempt: the PADI is not written again after the
\* read that returned such a response.
C17_WrongCodeKeepsAttempt ==
    (ev.op = "Dial" /\ ~pado.got) =>
        \A j \in 1..Len(ev.rx) :
           j < Len(ev.tx) => ev.rx[j] \notin {"PADS", "PADT"}

\* the tags of type t in a tag list, in order
TagsOfType(tags, t) == SelectSeq(tags, LAMBDA x : x.Type = t)

\* the tags of another type than t in a tag list, in order
TagsNotOfType(tags, t) == SelectSeq(tags, LAMBDA x : x.Type # t)

\* C18: the tags of the PADR are one service-name tag, then the configured
\* tags that are not service-name tags in configured order, then the
\* AC-cookie tags of the PADO, then its relay-session-id tags, every echoed
\* tag as it was and as often as it was there; so the PADR has exactly one
\* service-name tag.
C18_PADRTagOrder ==
    (ev.op = "buildPADRWithPADO") =>
        LET out  == ev.ret.Tags
            cfg  == TagsNotOfType(ev.arg.tags, "ServiceName")
            ack  == TagsOfType(ev.arg.pado, "ACCookie")
            rsid == TagsOfType(ev.arg.pado, "RelaySessionID")
        IN  /\ Len(out) = 1 + Len(cfg) + Len(ack) + Len(rsid)
            /\ out[1].Type = "ServiceName"
            /\ SubSeq(out, 2, 1 + Len(cfg)) = cfg
            /\ SubSeq(out, 2 + Len(cfg), 1 + Len(cfg) + Len(ack)) = ack
            /\ SubSeq(out, 2 + Len(cfg) + Len(ack), Len(out)) = rsid
            /\ Cardinality({k \in 1..Len(out) : out[k].Type = "ServiceName"}) = 1

\* configured: a service-name tag with a value and a host-uniq tag; PADO: a
\* cookie, a relay-session-id, then a second cookie
C18_Witness ==
    /\ ev.op = "buildPADRWithPADO"
    /\ ev.arg.tags = <<[Type |-> "ServiceName", Value |-> <<1>>],
                       [Type |-> "HostUniq", Value |-> <<2>>]>>
    /\ ev.arg.pado = <<[Type |-> "ACCookie", Value |-> <<4>>],
                       [Type |-> "RelaySessionID", Value |-> <<5>>],
                       [Type |-> "ACCookie", Value |-> <<3>>]>>
    /\ Len(ev.ret.Tags) = 5

\* C19: an UnRegister(P) that waits for the registry lock never waits behind a
\* dispatch unit that is blocked sending on P's own full channel, the channel
\* the caller of UnRegister has stopped receiving from: the readers it waits
\* for can all leave without a receive on P's channel.
C19_UnRegisterNotBehindItsOwnChannel ==
    (~crashed /\ regCall.op = "UnRegister") =>
        \A i \in rwReaders :
           relayChanList[FrameProto(rxLog[i])] # relayChanList[regCall.p]

\* C20: UnRegister of a protocol that has no entry in the registry completes
\* without a failure: it never panics closing the nil channel.
C20_UnRegisterUnmappedCompletes ==
    panicked # "close of nil channel"

====
